---- MODULE Spec2Model ----
(***************************************************************************)
(* The ingestion pipeline of graph-mcp (internal/ingest.IngestFile) as a   *)
(* state machine.  One step of the machine is one external call made by    *)
(* IngestFile (service construction, document load, split, database and    *)
(* connection open, schema creation, and, per chunk, embedding request,    *)
(* statement prepare, statement execute, extraction request, output of     *)
(* the extraction result).  The store is the single Document table of the  *)
(* database file "amg.db", keyed by content (PRIMARY KEY (content)).       *)
(***************************************************************************)
EXTENDS Integers, Sequences, FiniteSets, TLC

\* ------------------------------------------------------------- bounds
\* Longest chunk list the splitter returns for one document.
MaxChunks == 2
\* Number of IngestFile calls started in one behaviour.
MaxRuns == 3
\* Dimension of the embedding column of the Document table (FLOAT[768]).
DocumentDim == 768

\* Two callers (two invocations of the ingest command).
Calls == {1, 2}
\* Chunk texts (chunk.PageContent).
Texts == {"a", "b"}
\* A document, identified with the chunk list the splitter derives from it.
Files == UNION {[1..n -> Texts] : n \in 0..MaxChunks}
\* Lengths of the vector an embedding request returns with a nil error: the
\* first entry of the reply's data list, whatever its length (none, the
\* dimension of the table, the dimension of another embedding model).
EmbeddingLens == {0, 768, 1024}

VARIABLES
    pc,          \* pc[c]: the statement of IngestFile call c is about to run
    file,        \* file[c]: the document behind filePath
    keySet,      \* keySet[c]: MISTRAL_API_KEY is set in the caller's environment
    chunks,      \* chunks[c]: the chunks returned by SplitDocuments
    idx,         \* idx[c]: position of the range loop in chunks (1-based)
    log,         \* log[c]: the external calls made by this call, in order
    err,         \* err[c]: what IngestFile returned ("none" while running)
    dbOpen,      \* dbOpen[c]: db handle created and not yet destroyed
    connOpen,    \* connOpen[c]: connection created and not yet destroyed
    stmts,       \* stmts[c]: prepared statements created and not yet destroyed
    embedding,   \* embedding[c]: length of the vector held in "embedding"
    destroys,    \* destroys[c]: the handles this call has destroyed, in order
    tableExists, \* the Document table exists in amg.db
    rows,        \* the rows of the Document table (content column), in insertion order
    startKeys,   \* startKeys[c]: content keys in the store when call c started
    startTable,  \* startTable[c]: tableExists when call c started
    prevFile,    \* prevFile[c]: the document of the caller's previous call
    prevDone,    \* prevDone[c]: the caller's previous call returned nil
    runs,        \* number of calls started so far
    failedFrom,  \* the phases from which some call has failed so far
    cancelAt,    \* cancelAt[c]: length of log[c] when the caller asked to cancel
                 \* the provider request in flight (0: never asked)
    probe        \* the last direct call of a provider function: its name,
                 \* its arguments, the backend's answer and what it returned

callVars == <<pc, file, keySet, chunks, idx, log, err, dbOpen, connOpen, stmts,
              embedding, destroys>>
storeVars == <<tableExists, rows>>
histVars == <<startKeys, startTable, prevFile, prevDone, runs, failedFrom>>
\* What only the start of a call changes.
startVars == <<file, keySet, startKeys, startTable, prevFile, prevDone, runs>>
\* The handles a call holds.
resVars == <<dbOpen, connOpen, stmts>>
\* The state of the ingestion pipeline.
pipeVars == <<callVars, storeVars, histVars>>
vars == <<pipeVars, cancelAt, probe>>

\* ------------------------------------------------------------- helpers
\* The set of content keys of the Document table.
Keys(rs) == {rs[i] : i \in DOMAIN rs}

\* One entry of the call trace: the external call, the chunk it is for
\* (0 outside the loop) and its result.
Event(ev, k, res) == [ev |-> ev, k |-> k, res |-> res]

\* The phase of the ingestion state machine a statement belongs to.
PhaseOf(p) ==
    CASE p \in {"newEmbedding", "newLlm", "load"} -> "Loading"
      [] p = "split" -> "Chunking"
      [] p \in {"openDb", "openConn", "schema", "embed", "prepare",
                "execute", "extract", "sink"} -> "PerChunkProcessing"
      [] p = "done" -> "Completed"
      [] p = "failed" -> "Failed"
      [] OTHER -> "Idle"

\* A handle: the database, the connection, or the k-th prepared statement.
Handle(h, k) == [h |-> h, k |-> k]

\* The database is destroyed first, then the connection, then the statements.
Deferred_DatabaseFirst(c) ==
    (IF dbOpen[c] THEN <<Handle("db", 0)>> ELSE <<>>)
    \o (IF connOpen[c] THEN <<Handle("conn", 0)>> ELSE <<>>)
    \o [i \in 1..stmts[c] |-> Handle("stmt", stmts[c] + 1 - i)]

\* The deferred calls of IngestFile, run at its return in the reverse of the
\* order of their defer statements: query.Destroy() of every statement, the
\* last prepared first, then conn.Destroy(), then db.Destroy().
Deferred(c) ==
    [i \in 1..stmts[c] |-> Handle("stmt", stmts[c] + 1 - i)]
    \o (IF connOpen[c] THEN <<Handle("conn", 0)>> ELSE <<>>)
    \o (IF dbOpen[c] THEN <<Handle("db", 0)>> ELSE <<>>)

\* return fmt.Errorf("failed to ...: %w", err): the call ends with the error
\* of the given stage, after the deferred Destroy calls have run.
Abort(c, stage) ==
    /\ pc' = [pc EXCEPT ![c] = "failed"]
    /\ err' = [err EXCEPT ![c] = stage]
    /\ destroys' = [destroys EXCEPT ![c] = Deferred(c)]
    /\ UNCHANGED embedding
    /\ dbOpen' = [dbOpen EXCEPT ![c] = FALSE]
    /\ connOpen' = [connOpen EXCEPT ![c] = FALSE]
    /\ stmts' = [stmts EXCEPT ![c] = 0]
    /\ failedFrom' = failedFrom \cup {PhaseOf(pc[c])}
    /\ UNCHANGED <<cancelAt, probe>>

\* return nil, after the deferred Destroy calls have run.
ReturnNil(c) ==
    /\ pc' = [pc EXCEPT ![c] = "done"]
    /\ err' = [err EXCEPT ![c] = "nil"]
    /\ destroys' = [destroys EXCEPT ![c] = Deferred(c)]
    /\ UNCHANGED embedding
    /\ dbOpen' = [dbOpen EXCEPT ![c] = FALSE]
    /\ connOpen' = [connOpen EXCEPT ![c] = FALSE]
    /\ stmts' = [stmts EXCEPT ![c] = 0]
    /\ UNCHANGED failedFrom
    /\ UNCHANGED <<cancelAt, probe>>

\* The call moves on to statement p.
Goto(c, p) ==
    /\ pc' = [pc EXCEPT ![c] = p]
    /\ UNCHANGED <<err, failedFrom>>
    /\ UNCHANGED <<cancelAt, probe>>
    /\ UNCHANGED <<embedding, destroys>>

\* embedding, err := ... with a nil error: the call holds a vector of n
\* elements and moves on to the prepare statement.
Received(c, n) ==
    /\ pc' = [pc EXCEPT ![c] = "prepare"]
    /\ embedding' = [embedding EXCEPT ![c] = n]
    /\ UNCHANGED <<err, failedFrom>>
    /\ UNCHANGED <<cancelAt, probe, destroys>>

\* The call makes external call ev for chunk k and gets result res.
Trace(c, ev, k, res) == log' = [log EXCEPT ![c] = Append(@, Event(ev, k, res))]

\* ------------------------------------------------------------- Init
Init ==
    /\ pc = [c \in Calls |-> "idle"]
    /\ file = [c \in Calls |-> <<>>]
    /\ keySet = [c \in Calls |-> TRUE]
    /\ chunks = [c \in Calls |-> <<>>]
    /\ idx = [c \in Calls |-> 0]
    /\ log = [c \in Calls |-> <<>>]
    /\ err = [c \in Calls |-> "none"]
    /\ dbOpen = [c \in Calls |-> FALSE]
    /\ connOpen = [c \in Calls |-> FALSE]
    /\ stmts = [c \in Calls |-> 0]
    /\ embedding = [c \in Calls |-> 0]
    /\ destroys = [c \in Calls |-> <<>>]
    /\ tableExists = FALSE
    /\ rows = <<>>
    /\ startKeys = [c \in Calls |-> {}]
    /\ startTable = [c \in Calls |-> FALSE]
    /\ prevFile = [c \in Calls |-> <<>>]
    /\ prevDone = [c \in Calls |-> FALSE]
    /\ runs = 0
    /\ failedFrom = {}
    /\ cancelAt = [c \in Calls |-> 0]
    /\ probe = [fn |-> "none"]

\* ------------------------------------------------------------- actions
\* The ingest command calls IngestFile(filePath).
Start(c, f, key) ==
    /\ pc[c] \in {"idle", "done", "failed"}
    /\ runs < MaxRuns
    /\ runs' = runs + 1
    /\ pc' = [pc EXCEPT ![c] = "newEmbedding"]
    /\ file' = [file EXCEPT ![c] = f]
    /\ keySet' = [keySet EXCEPT ![c] = key]
    /\ chunks' = [chunks EXCEPT ![c] = <<>>]
    /\ idx' = [idx EXCEPT ![c] = 0]
    /\ log' = [log EXCEPT ![c] = <<>>]
    /\ err' = [err EXCEPT ![c] = "none"]
    /\ embedding' = [embedding EXCEPT ![c] = 0]
    /\ destroys' = [destroys EXCEPT ![c] = <<>>]
    /\ startKeys' = [startKeys EXCEPT ![c] = Keys(rows)]
    /\ startTable' = [startTable EXCEPT ![c] = tableExists]
    /\ prevFile' = [prevFile EXCEPT ![c] = file[c]]
    /\ prevDone' = [prevDone EXCEPT ![c] = (pc[c] = "done")]
    /\ cancelAt' = [cancelAt EXCEPT ![c] = 0]
    /\ UNCHANGED <<resVars, storeVars, failedFrom, probe>>

\* embedding.New(embedding.ProviderMistral): NewMistralService reads the key
\* and returns a service; it has no error result, so New returns nil error.
NewEmbedding(c) ==
    /\ pc[c] = "newEmbedding"
    /\ Trace(c, "newEmbedding", 0, "ok")
    /\ Goto(c, "newLlm")
    /\ UNCHANGED <<chunks, idx, resVars, storeVars, startVars>>

\* The key is not looked at when the service is made: the call goes on to
\* load the document without it.
NewLlm_LazyKeyCheck(c) ==
    /\ pc[c] = "newLlm"
    /\ Trace(c, "newLlm", 0, "ok")
    /\ Goto(c, "load")
    /\ UNCHANGED <<chunks, idx, resVars, storeVars, startVars>>

\* llm.NewLlmService(llm.ProviderMistral): NewMistralLlmService fails when
\* MISTRAL_API_KEY is empty.
NewLlm(c) ==
    /\ pc[c] = "newLlm"
    /\ IF keySet[c]
         THEN /\ Trace(c, "newLlm", 0, "ok")
              /\ Goto(c, "load")
              /\ UNCHANGED resVars
         ELSE /\ Trace(c, "newLlm", 0, "nokey")
              /\ Abort(c, "newLlm")
    /\ UNCHANGED <<chunks, idx, storeVars, startVars>>

\* The range loop takes its next chunk, or IngestFile returns nil when the
\* chunks are exhausted.
LoopNext(c) ==
    IF idx[c] < Len(chunks[c])
      THEN /\ idx' = [idx EXCEPT ![c] = @ + 1]
           /\ Goto(c, "embed")
           /\ UNCHANGED resVars
      ELSE /\ ReturnNil(c)
           /\ UNCHANGED idx

\* A load failure is ignored and the call goes on with no document.
Load_IgnoreError(c) ==
    /\ pc[c] = "load"
    /\ \E ok \in BOOLEAN :
         Trace(c, "load", 0, IF ok THEN "ok" ELSE "env")
    /\ Goto(c, "split")
    /\ UNCHANGED <<chunks, idx, resVars, storeVars, startVars>>

\* loader.Load(context.Background()): reads the file; may fail.
Load(c) ==
    /\ pc[c] = "load"
    /\ \E ok \in BOOLEAN :
         IF ok
           THEN /\ Trace(c, "load", 0, "ok")
                /\ Goto(c, "split")
                /\ UNCHANGED resVars
           ELSE /\ Trace(c, "load", 0, "env")
                /\ Abort(c, "load")
    /\ UNCHANGED <<chunks, idx, storeVars, startVars>>

\* splitter.SplitDocuments(docs): yields the chunk list; may fail.
Split(c) ==
    /\ pc[c] = "split"
    /\ \E ok \in BOOLEAN :
         IF ok
           THEN /\ Trace(c, "split", 0, "ok")
                /\ chunks' = [chunks EXCEPT ![c] = file[c]]
                /\ Goto(c, "openDb")
                /\ UNCHANGED resVars
           ELSE /\ Trace(c, "split", 0, "env")
                /\ Abort(c, "split")
                /\ UNCHANGED chunks
    /\ UNCHANGED <<idx, storeVars, startVars>>

\* kuzu.NewDatabase("amg.db", 0) and defer db.Destroy(); may fail.
OpenDatabase(c) ==
    /\ pc[c] = "openDb"
    /\ \E ok \in BOOLEAN :
         IF ok
           THEN /\ Trace(c, "openDb", 0, "ok")
                /\ dbOpen' = [dbOpen EXCEPT ![c] = TRUE]
                /\ Goto(c, "openConn")
                /\ UNCHANGED <<connOpen, stmts>>
           ELSE /\ Trace(c, "openDb", 0, "env")
                /\ Abort(c, "openDb")
    /\ UNCHANGED <<chunks, idx, storeVars, startVars>>

\* A connection failure is ignored and the call goes on to the schema.
OpenConnection_IgnoreError(c) ==
    /\ pc[c] = "openConn"
    /\ \E ok \in BOOLEAN :
         /\ Trace(c, "openConn", 0, IF ok THEN "ok" ELSE "env")
         /\ connOpen' = [connOpen EXCEPT ![c] = ok]
    /\ Goto(c, "schema")
    /\ UNCHANGED <<dbOpen, stmts, chunks, idx, storeVars, startVars>>

\* kuzu.NewConnection(db) and defer conn.Destroy(); may fail.
OpenConnection(c) ==
    /\ pc[c] = "openConn"
    /\ \E ok \in BOOLEAN :
         IF ok
           THEN /\ Trace(c, "openConn", 0, "ok")
                /\ connOpen' = [connOpen EXCEPT ![c] = TRUE]
                /\ Goto(c, "schema")
                /\ UNCHANGED <<dbOpen, stmts>>
           ELSE /\ Trace(c, "openConn", 0, "env")
                /\ Abort(c, "openConn")
    /\ UNCHANGED <<chunks, idx, storeVars, startVars>>

\* A schema error is returned to the caller like every other error.
CreateSchema_AbortOnError(c) ==
    /\ pc[c] = "schema"
    /\ IF tableExists
         THEN /\ Trace(c, "schema", 0, "exists")
              /\ Abort(c, "schema")
              /\ UNCHANGED <<tableExists, idx>>
         ELSE \E ok \in BOOLEAN :
                IF ok
                  THEN /\ Trace(c, "schema", 0, "ok")
                       /\ tableExists' = TRUE
                       /\ LoopNext(c)
                  ELSE /\ Trace(c, "schema", 0, "env")
                       /\ Abort(c, "schema")
                       /\ UNCHANGED <<tableExists, idx>>
    /\ UNCHANGED <<chunks, rows, startVars>>

\* conn.Query("CREATE TABLE Document (content STRING, embedding FLOAT[768],
\* PRIMARY KEY (content))"): fails when the table exists already, and may fail
\* otherwise; the error is printed and the call goes on to the chunk loop.
CreateSchema(c) ==
    /\ pc[c] = "schema"
    /\ IF tableExists
         THEN /\ Trace(c, "schema", 0, "exists")
              /\ UNCHANGED tableExists
         ELSE \E ok \in BOOLEAN :
                /\ Trace(c, "schema", 0, IF ok THEN "ok" ELSE "env")
                /\ tableExists' = ok
    /\ LoopNext(c)
    /\ UNCHANGED <<chunks, rows, startVars>>

\* A failed embedding request is sent once more before the call gives up.
GetEmbeddings_RetryOnce(c) ==
    /\ pc[c] = "embed"
    /\ \E ok \in BOOLEAN :
         IF ok
           THEN /\ Trace(c, "embed", idx[c], "ok")
                /\ \E n \in EmbeddingLens : Received(c, n)
                /\ UNCHANGED resVars
           ELSE /\ Trace(c, "embed", idx[c], "env")
                /\ IF log[c][Len(log[c])].ev = "embed"
                     THEN Abort(c, "embed")
                     ELSE Goto(c, "embed") /\ UNCHANGED resVars
    /\ UNCHANGED <<chunks, idx, storeVars, startVars>>

\* A failed embedding request is ignored and the chunk is stored anyway.
GetEmbeddings_IgnoreError(c) ==
    /\ pc[c] = "embed"
    /\ \E ok \in BOOLEAN :
         Trace(c, "embed", idx[c], IF ok THEN "ok" ELSE "env")
    /\ \E n \in EmbeddingLens : Received(c, n)
    /\ UNCHANGED <<chunks, idx, resVars, storeVars, startVars>>

\* embeddingService.GetEmbeddings(chunk.PageContent, RETRIEVAL_DOCUMENT):
\* MistralService.GetEmbeddings sends one HTTP request (s.client.Do) and
\* returns its error, or the first embedding of the reply with a nil error.
GetEmbeddings(c) ==
    /\ pc[c] = "embed"
    /\ \E ok \in BOOLEAN :
         IF ok
           THEN /\ Trace(c, "embed", idx[c], "ok")
                /\ \E n \in EmbeddingLens : Received(c, n)
                /\ UNCHANGED resVars
           ELSE /\ Trace(c, "embed", idx[c], "env")
                /\ Abort(c, "embed")
    /\ UNCHANGED <<chunks, idx, storeVars, startVars>>

\* conn.Prepare("CREATE (d:Document {content: $content, embedding:
\* $embedding})") and defer query.Destroy(): fails when the Document table
\* does not exist, and may fail otherwise.
Prepare(c) ==
    /\ pc[c] = "prepare"
    /\ IF ~tableExists
         THEN /\ Trace(c, "prepare", idx[c], "notable")
              /\ Abort(c, "prepare")
         ELSE \E ok \in BOOLEAN :
                IF ok
                  THEN /\ Trace(c, "prepare", idx[c], "ok")
                       /\ stmts' = [stmts EXCEPT ![c] = @ + 1]
                       /\ Goto(c, "execute")
                       /\ UNCHANGED <<dbOpen, connOpen>>
                  ELSE /\ Trace(c, "prepare", idx[c], "env")
                       /\ Abort(c, "prepare")
    /\ UNCHANGED <<chunks, idx, storeVars, startVars>>

\* conn.Execute(query, params) with params = {content, embedding}: a vector
\* whose length is not that of the FLOAT[768] column is refused; CREATE of a
\* node whose content is already a key of the table violates PRIMARY KEY
\* (content) and fails; otherwise the row is inserted, unless the store fails.
Execute(c) ==
    /\ pc[c] = "execute"
    /\ LET content == chunks[c][idx[c]] IN
         IF embedding[c] # DocumentDim
           THEN /\ Trace(c, "execute", idx[c], "baddim")
                /\ Abort(c, "execute")
                /\ UNCHANGED rows
         ELSE IF content \in Keys(rows)
           THEN /\ Trace(c, "execute", idx[c], "dupkey")
                /\ Abort(c, "execute")
                /\ UNCHANGED rows
           ELSE \E ok \in BOOLEAN :
                  IF ok
                    THEN /\ Trace(c, "execute", idx[c], "ok")
                         /\ rows' = Append(rows, content)
                         /\ Goto(c, "extract")
                         /\ UNCHANGED resVars
                    ELSE /\ Trace(c, "execute", idx[c], "env")
                         /\ Abort(c, "execute")
                         /\ UNCHANGED rows
    /\ UNCHANGED <<chunks, idx, tableExists, startVars>>

\* A failed extraction is skipped and the loop goes on with the next chunk.
GenerateText_SkipOnError(c) ==
    /\ pc[c] = "extract"
    /\ \E ok \in BOOLEAN :
         IF ok
           THEN /\ Trace(c, "extract", idx[c], "ok")
                /\ Goto(c, "sink")
                /\ UNCHANGED <<idx, resVars>>
           ELSE /\ Trace(c, "extract", idx[c], "env")
                /\ LoopNext(c)
    /\ UNCHANGED <<chunks, storeVars, startVars>>

\* A failed extraction takes back the rows this call has written.
GenerateText_RollbackOnError(c) ==
    /\ pc[c] = "extract"
    /\ \E ok \in BOOLEAN :
         IF ok
           THEN /\ Trace(c, "extract", idx[c], "ok")
                /\ Goto(c, "sink")
                /\ UNCHANGED <<resVars, rows>>
           ELSE /\ Trace(c, "extract", idx[c], "env")
                /\ Abort(c, "extract")
                /\ rows' = SelectSeq(rows, LAMBDA r : r \in startKeys[c])
    /\ UNCHANGED <<chunks, idx, tableExists, startVars>>

\* The extraction result is dropped: the loop goes on without printing it.
GenerateText_NoSink(c) ==
    /\ pc[c] = "extract"
    /\ \E ok \in BOOLEAN :
         IF ok
           THEN /\ Trace(c, "extract", idx[c], "ok")
                /\ LoopNext(c)
           ELSE /\ Trace(c, "extract", idx[c], "env")
                /\ Abort(c, "extract")
                /\ UNCHANGED idx
    /\ UNCHANGED <<chunks, storeVars, startVars>>

\* llmService.GenerateText(context.Background(), prompt):
\* MistralLlmService.GenerateText sends one HTTP request (s.HTTPClient.Do)
\* and returns the content of the first choice or an error.
GenerateText(c) ==
    /\ pc[c] = "extract"
    /\ \E ok \in BOOLEAN :
         IF ok
           THEN /\ Trace(c, "extract", idx[c], "ok")
                /\ Goto(c, "sink")
                /\ UNCHANGED resVars
           ELSE /\ Trace(c, "extract", idx[c], "env")
                /\ Abort(c, "extract")
    /\ UNCHANGED <<chunks, idx, storeVars, startVars>>

\* IngestFile returns nil as soon as the first chunk is done.
Sink_ReturnEarly(c) ==
    /\ pc[c] = "sink"
    /\ Trace(c, "sink", idx[c], "ok")
    /\ ReturnNil(c)
    /\ UNCHANGED <<chunks, idx, storeVars, startVars>>

\* fmt.Println("Graph Info:", graphInfo), the end of the loop body.
Sink(c) ==
    /\ pc[c] = "sink"
    /\ Trace(c, "sink", idx[c], "ok")
    /\ LoopNext(c)
    /\ UNCHANGED <<chunks, storeVars, startVars>>

\* One statement of one running call.
Step(c) ==
    \/ NewEmbedding(c)
    \/ NewLlm(c)
    \/ Load(c)
    \/ Split(c)
    \/ OpenDatabase(c)
    \/ OpenConnection(c)
    \/ CreateSchema(c)
    \/ GetEmbeddings(c)
    \/ Prepare(c)
    \/ Execute(c)
    \/ GenerateText(c)
    \/ Sink(c)

\* ------------------------------------------------------------- specifications
\* One caller, which runs the ingest command again and again.
Next ==
    \/ \E f \in Files, key \in BOOLEAN : Start(1, f, key)
    \/ Step(1)

Spec == Init /\ [][Next]_vars

\* Two callers, each running the ingest command once, at the same time.
StartOnce(c, f) ==
    /\ pc[c] = "idle"
    /\ Start(c, f, TRUE)

NextConc ==
    \E c \in Calls :
        \/ \E f \in Files : StartOnce(c, f)
        \/ Step(c)

SpecConc == Init /\ [][NextConc]_vars

\* A provider request of call c is in flight: the call has reached the
\* request and the request has not returned.
InFlight(c) == pc[c] \in {"embed", "extract"}

\* The caller asks to cancel the ingestion while a provider request is in
\* flight.  IngestFile takes no context, Service.GetEmbeddings has no context
\* parameter and GenerateText is given context.Background(): nothing carries
\* the request for cancellation to the provider call.
Cancel(c) ==
    /\ InFlight(c)
    /\ cancelAt[c] = 0
    /\ cancelAt' = [cancelAt EXCEPT ![c] = Len(log[c])]
    /\ UNCHANGED <<pipeVars, probe>>

\* One caller, who may ask to cancel a provider request in flight.
NextCancel ==
    \/ Next
    \/ Cancel(1)

SpecCancel == Init /\ [][NextCancel]_vars

\* ------------------------------------------------------------- provider services
\* Provider values handed to the factories: the enumerated ones and others.
ProviderValues == {"gemini", "mistral", "testing", "", "openai", "Mistral"}

\* Values of an API-key environment variable: unset (empty) or set.
KeyValues == {"", "k"}

\* The process environment the constructors read.
Environments == [MISTRAL_API_KEY : KeyValues, GEMINI_API_KEY : KeyValues]

\* fmt.Errorf(format, args...): an error, as its format and arguments.
Error(msg, args) == [msg |-> msg, args |-> args]

\* The nil error.
NilError == Error("", <<>>)

IsNil(e) == e.msg = ""

\* The nil service.
NoService == [kind |-> "nil", apiKey |-> ""]

\* What a constructor call ends with: a service, an error, or a panic.
Constructed(svc, e, panicked) == [svc |-> svc, err |-> e, panicked |-> panicked]

\* NewMistralService(): &MistralService{apiKey: os.Getenv("MISTRAL_API_KEY"),
\* client: &http.Client{}}; it has no error result.
NewMistralService(env) == [kind |-> "mistral", apiKey |-> env.MISTRAL_API_KEY]

\* NewMockService(): &MockService{}.
NewMockService == [kind |-> "mock", apiKey |-> ""]

\* newGeminiService(): genai.NewClient with GEMINI_API_KEY; when the client
\* cannot be created the constructor panics.  clientOk is the answer of
\* genai.NewClient.
newGeminiService(env, clientOk) ==
    IF clientOk
      THEN Constructed([kind |-> "gemini", apiKey |-> env.GEMINI_API_KEY],
                       NilError, FALSE)
      ELSE Constructed(NoService, NilError, TRUE)

\* An unknown embedding provider falls back to the mock service.
New_DefaultsToMock(provider, env, clientOk) ==
    CASE provider = "gemini" -> newGeminiService(env, clientOk)
      [] provider = "mistral" -> Constructed(NewMistralService(env), NilError, FALSE)
      [] OTHER -> Constructed(NewMockService, NilError, FALSE)

\* embedding.New(provider).
New(provider, env, clientOk) ==
    CASE provider = "gemini" -> newGeminiService(env, clientOk)
      [] provider = "mistral" -> Constructed(NewMistralService(env), NilError, FALSE)
      [] provider = "testing" -> Constructed(NewMockService, NilError, FALSE)
      [] OTHER -> Constructed(NoService,
                              Error("unknown embedding provider: %s", <<provider>>),
                              FALSE)

\* NewMistralLlmService(): fails when MISTRAL_API_KEY is empty.
NewMistralLlmService(env) ==
    IF env.MISTRAL_API_KEY = ""
      THEN Constructed(NoService,
                       Error("MISTRAL_API_KEY environment variable not set", <<>>),
                       FALSE)
      ELSE Constructed([kind |-> "mistralLlm", apiKey |-> env.MISTRAL_API_KEY],
                       NilError, FALSE)

\* llm.NewLlmService(provider).
NewLlmService(provider, env) ==
    CASE provider = "mistral" -> NewMistralLlmService(env)
      [] OTHER -> Constructed(NoService,
                              Error("unknown LLM provider: %s", <<provider>>), FALSE)

\* A direct call of embedding.New.
CallNew(provider, env, clientOk) ==
    /\ probe.fn = "none"
    /\ probe' = [fn |-> "New",
                 in |-> [provider |-> provider, env |-> env, clientOk |-> clientOk],
                 out |-> New(provider, env, clientOk),
                 reqs |-> <<>>]
    /\ UNCHANGED <<pipeVars, cancelAt>>

\* A direct call of llm.NewLlmService.
CallNewLlmService(provider, env) ==
    /\ probe.fn = "none"
    /\ probe' = [fn |-> "NewLlmService",
                 in |-> [provider |-> provider, env |-> env, clientOk |-> TRUE],
                 out |-> NewLlmService(provider, env),
                 reqs |-> <<>>]
    /\ UNCHANGED <<pipeVars, cancelAt>>

\* ------------------------------------------------------------- embedding providers
\* Longest "data" list of an embeddings reply.
MaxData == 2
\* Dimension of the mock embedding (make(EmbedResponse, 768)).
MockDim == 768

\* Texts handed to GetEmbeddings.
EmbedTexts == {"", "x"}
\* EmbeddingTypeRetrievalDocument, EmbeddintTypeRetrievalQuery.
EmbeddingTypes == {"RETRIEVAL_DOCUMENT", "RETRIEVAL_QUERY"}
\* Embedding vectors a backend returns.
Vectors == {<<>>, <<1>>, <<1, 2>>}
\* The "data" lists of a reply.
DataLists == UNION {[1..n -> Vectors] : n \in 0..MaxData}
\* Reply bodies: a JSON object with its data list, JSON cut short, plain text.
EmbedBodies ==
    {[kind |-> "json", data |-> d] : d \in DataLists}
    \cup {[kind |-> "truncated", data |-> <<>>], [kind |-> "text", data |-> <<>>]}
\* HTTP status codes of a reply.
StatusCodes == {200, 401, 500}
\* What the backend answers: whether the exchange succeeded at all
\* (client.Do returned no error), and then the status and the body.
EmbedReplies == [transport : BOOLEAN, status : StatusCodes, body : EmbedBodies]

\* resp.Status.
StatusLine(code) ==
    CASE code = 200 -> "200 OK"
      [] code = 401 -> "401 Unauthorized"
      [] code = 500 -> "500 Internal Server Error"

\* json.NewDecoder(resp.Body).Decode(&mistralResponse): fails unless the body
\* is a JSON value.
Decodes(body) == body.kind = "json"

\* What GetEmbeddings ends with: the vector (empty for nil), the error, and
\* the outbound requests it sent.
Embedded(vec, e, reqs) == [vec |-> vec, err |-> e, reqs |-> reqs]

\* The body is decoded before the status is looked at.
MistralGetEmbeddings_DecodeFirst(svc, text, embeddingType, reply) ==
    LET req == [url |-> "https://api.mistral.ai/v1/embeddings",
                auth |-> svc.apiKey, input |-> <<text>>]
    IN  IF ~reply.transport
          THEN Embedded(<<>>, Error("failed to send request: %w", <<>>), <<req>>)
        ELSE IF ~Decodes(reply.body)
          THEN Embedded(<<>>, Error("failed to decode response: %w", <<>>), <<req>>)
        ELSE IF reply.status # 200
          THEN Embedded(<<>>, Error("mistral API error: %s - %s",
                                    <<StatusLine(reply.status), reply.body>>),
                        <<req>>)
        ELSE IF Len(reply.body.data) = 0
          THEN Embedded(<<>>, Error("no embeddings found in response", <<>>), <<req>>)
        ELSE Embedded(reply.body.data[1], NilError, <<req>>)

\* MistralService.GetEmbeddings(text, embeddingType): one POST to
\* /v1/embeddings with input [text]; the embedding type is not used.
MistralGetEmbeddings(svc, text, embeddingType, reply) ==
    LET req == [url |-> "https://api.mistral.ai/v1/embeddings",
                auth |-> svc.apiKey, input |-> <<text>>]
    IN  IF ~reply.transport
          THEN Embedded(<<>>, Error("failed to send request: %w", <<>>), <<req>>)
        ELSE IF reply.status # 200
          THEN Embedded(<<>>, Error("mistral API error: %s - %s",
                                    <<StatusLine(reply.status), reply.body>>),
                        <<req>>)
        ELSE IF ~Decodes(reply.body)
          THEN Embedded(<<>>, Error("failed to decode response: %w", <<>>), <<req>>)
        ELSE IF Len(reply.body.data) = 0
          THEN Embedded(<<>>, Error("no embeddings found in response", <<>>), <<req>>)
        ELSE Embedded(reply.body.data[1], NilError, <<req>>)

\* extractEmbeddingVector(embeddings): nil for no embedding, else the first.
extractEmbeddingVector(embeddings) ==
    IF Len(embeddings) = 0 THEN <<>> ELSE embeddings[1]

\* geminiService.GetEmbeddings(text, embeddingType): one EmbedContent request
\* under context.Background(); the client's error is returned as it is, and
\* otherwise the extracted vector with a nil error.
GeminiGetEmbeddings(svc, text, embeddingType, reply) ==
    LET req == [url |-> "gemini-embedding-exp-03-07",
                auth |-> svc.apiKey, input |-> <<text>>]
    IN  IF ~reply.transport \/ reply.status # 200 \/ ~Decodes(reply.body)
          THEN Embedded(<<>>, Error("genai: %w", <<>>), <<req>>)
          ELSE Embedded(extractEmbeddingVector(reply.body.data), NilError, <<req>>)

\* The mock vector is longer for a query than for a document.
MockGetEmbeddings_QueryDim(text, embeddingType) ==
    IF text = ""
      THEN Embedded(<<>>, NilError, <<>>)
      ELSE Embedded([i \in 1..(IF embeddingType = "RETRIEVAL_QUERY"
                                 THEN MockDim + 1 ELSE MockDim) |-> i - 1],
                    NilError, <<>>)

\* MockService.GetEmbeddings(text, embeddingType): nil for the empty text,
\* else the vector of the 768 values i/1000 (held here in thousandths).
MockGetEmbeddings(text, embeddingType) ==
    IF text = ""
      THEN Embedded(<<>>, NilError, <<>>)
      ELSE Embedded([i \in 1..MockDim |-> i - 1], NilError, <<>>)

\* Service.GetEmbeddings on the service of the given provider.
GetEmbeddingsOf(provider, env, text, embeddingType, reply) ==
    CASE provider = "mistral" ->
           MistralGetEmbeddings(NewMistralService(env), text, embeddingType, reply)
      [] provider = "gemini" ->
           GeminiGetEmbeddings(newGeminiService(env, TRUE).svc, text,
                               embeddingType, reply)
      [] provider = "testing" -> MockGetEmbeddings(text, embeddingType)

\* A direct call of GetEmbeddings on a service made by embedding.New.
CallGetEmbeddings(provider, env, text, embeddingType, reply) ==
    /\ provider \in {"mistral", "gemini", "testing"}
    /\ probe.fn = "none"
    /\ probe' = [fn |-> "GetEmbeddings",
                 in |-> [provider |-> provider, env |-> env, text |-> text,
                         embeddingType |-> embeddingType, reply |-> reply],
                 out |-> GetEmbeddingsOf(provider, env, text, embeddingType, reply),
                 reqs |-> GetEmbeddingsOf(provider, env, text, embeddingType,
                                          reply).reqs]
    /\ UNCHANGED <<pipeVars, cancelAt>>

\* ------------------------------------------------------------- LLM provider
\* Longest "choices" list of a chat reply.
MaxChoices == 2
\* Longest image, in bytes.
MaxImageLen == 3

\* Prompts handed to the LLM service.
Prompts == {"", "p"}
\* Message contents of a chat reply.
ChatContents == {"", "hi"}
\* The "choices" lists of a reply, each choice given by its message content.
ChoiceLists == UNION {[1..n -> ChatContents] : n \in 0..MaxChoices}
\* Reply bodies: a JSON object with its choices, JSON cut short, plain text.
ChatBodies ==
    {[kind |-> "json", choices |-> ch] : ch \in ChoiceLists}
    \cup {[kind |-> "truncated", choices |-> <<>>], [kind |-> "text", choices |-> <<>>]}
\* What the chat backend answers.
ChatReplies == [transport : BOOLEAN, status : StatusCodes, body : ChatBodies]

\* Bytes of an image, and the images.
ImageBytes == {0, 77, 255}
Images == UNION {[1..n -> ImageBytes] : n \in 0..MaxImageLen}
\* MIME types handed to ExtractTextFromImage.
MimeTypes == {"", "image/png"}

\* What an LLM call ends with: the text, the error, the requests it sent.
Generated(text, e, reqs) == [text |-> text, err |-> e, reqs |-> reqs]

\* The body is decoded before the status is looked at.
MistralGenerateText_DecodeFirst(svc, prompt, reply) ==
    LET req == [url |-> "https://api.mistral.ai/v1/chat/completions",
                auth |-> svc.apiKey, model |-> "mistral-small-latest",
                messages |-> <<[role |-> "user", content |-> prompt]>>]
    IN  IF ~reply.transport
          THEN Generated("", Error("failed to send request to Mistral API: %w", <<>>),
                         <<req>>)
        ELSE IF ~Decodes(reply.body)
          THEN Generated("", Error("failed to decode mistral response: %w", <<>>),
                         <<req>>)
        ELSE IF reply.status # 200
          THEN Generated("", Error("mistral API error: %s - %s",
                                   <<StatusLine(reply.status), reply.body>>),
                         <<req>>)
        ELSE IF Len(reply.body.choices) = 0 \/ reply.body.choices[1] = ""
          THEN Generated("", Error("no content found in mistral response", <<>>),
                         <<req>>)
        ELSE Generated(reply.body.choices[1], NilError, <<req>>)

\* MistralLlmService.GenerateText(ctx, prompt): one POST to /chat/completions
\* with the prompt as the single user message.
MistralGenerateText(svc, prompt, reply) ==
    LET req == [url |-> "https://api.mistral.ai/v1/chat/completions",
                auth |-> svc.apiKey, model |-> "mistral-small-latest",
                messages |-> <<[role |-> "user", content |-> prompt]>>]
    IN  IF ~reply.transport
          THEN Generated("", Error("failed to send request to Mistral API: %w", <<>>),
                         <<req>>)
        ELSE IF reply.status # 200
          THEN Generated("", Error("mistral API error: %s - %s",
                                   <<StatusLine(reply.status), reply.body>>),
                         <<req>>)
        ELSE IF ~Decodes(reply.body)
          THEN Generated("", Error("failed to decode mistral response: %w", <<>>),
                         <<req>>)
        ELSE IF Len(reply.body.choices) = 0 \/ reply.body.choices[1] = ""
          THEN Generated("", Error("no content found in mistral response", <<>>),
                         <<req>>)
        ELSE Generated(reply.body.choices[1], NilError, <<req>>)

\* The alphabet of base64.StdEncoding, and its padding character.
encodeStd ==
    <<"A", "B", "C", "D", "E", "F", "G", "H", "I", "J", "K", "L", "M",
      "N", "O", "P", "Q", "R", "S", "T", "U", "V", "W", "X", "Y", "Z",
      "a", "b", "c", "d", "e", "f", "g", "h", "i", "j", "k", "l", "m",
      "n", "o", "p", "q", "r", "s", "t", "u", "v", "w", "x", "y", "z",
      "0", "1", "2", "3", "4", "5", "6", "7", "8", "9", "+", "/">>
StdPadding == "="

\* The character of a 6-bit value.
Enc(v) == encodeStd[(v % 64) + 1]

\* The encoding without padding (base64.RawStdEncoding).
RECURSIVE EncodeToString_Unpadded(_)
EncodeToString_Unpadded(src) ==
    IF Len(src) = 0 THEN <<>>
    ELSE IF Len(src) = 1
      THEN LET val == src[1] * 65536
           IN  <<Enc(val \div 262144), Enc(val \div 4096)>>
    ELSE IF Len(src) = 2
      THEN LET val == src[1] * 65536 + src[2] * 256
           IN  <<Enc(val \div 262144), Enc(val \div 4096), Enc(val \div 64)>>
    ELSE LET val == src[1] * 65536 + src[2] * 256 + src[3]
         IN  <<Enc(val \div 262144), Enc(val \div 4096), Enc(val \div 64), Enc(val)>>
             \o EncodeToString_Unpadded(SubSeq(src, 4, Len(src)))

\* base64.StdEncoding.EncodeToString(src): each 3 bytes give 4 characters;
\* a remainder of 1 or 2 bytes gives 2 or 3 characters and padding up to 4.
RECURSIVE EncodeToString(_)
EncodeToString(src) ==
    IF Len(src) = 0 THEN <<>>
    ELSE IF Len(src) = 1
      THEN LET val == src[1] * 65536
           IN  <<Enc(val \div 262144), Enc(val \div 4096), StdPadding, StdPadding>>
    ELSE IF Len(src) = 2
      THEN LET val == src[1] * 65536 + src[2] * 256
           IN  <<Enc(val \div 262144), Enc(val \div 4096), Enc(val \div 64),
                 StdPadding>>
    ELSE LET val == src[1] * 65536 + src[2] * 256 + src[3]
         IN  <<Enc(val \div 262144), Enc(val \div 4096), Enc(val \div 64), Enc(val)>>
             \o EncodeToString(SubSeq(src, 4, Len(src)))

\* fmt.Sprintf("data:%s;base64,%s", mimeType, base64Image), as its pieces.
ImageURL(mimeType, base64Image) == <<"data:", mimeType, ";base64,">> \o base64Image

\* An empty image is sent like any other.
MistralExtractTextFromImage_NoEmptyCheck(svc, prompt, image, mimeType, reply) ==
    LET mime == IF mimeType = "" THEN "image/jpeg" ELSE mimeType
        imageURL == ImageURL(mime, EncodeToString(image))
        req == [url |-> "https://api.mistral.ai/v1/chat/completions",
                auth |-> svc.apiKey, model |-> "mistral-medium-latest",
                messages |->
                  <<[role |-> "user",
                     content |-> <<[type |-> "text", text |-> prompt],
                                   [type |-> "image_url",
                                    image_url |-> [url |-> imageURL]]>>]>>]
    IN  IF ~reply.transport
          THEN Generated("", Error("failed to send multimodal request to Mistral API: %w",
                                   <<>>),
                         <<req>>)
        ELSE IF reply.status # 200
          THEN Generated("", Error("mistral API error (multimodal): %s - %s",
                                   <<StatusLine(reply.status), reply.body>>),
                         <<req>>)
        ELSE IF ~Decodes(reply.body)
          THEN Generated("", Error("failed to decode mistral multimodal response: %w",
                                   <<>>),
                         <<req>>)
        ELSE IF Len(reply.body.choices) = 0 \/ reply.body.choices[1] = ""
          THEN Generated("", Error("no content found in mistral multimodal response",
                                   <<>>),
                         <<req>>)
        ELSE Generated(reply.body.choices[1], NilError, <<req>>)

\* MistralLlmService.ExtractTextFromImage(ctx, prompt, image, mimeType): an
\* empty image is refused before anything is sent; otherwise one POST to
\* /chat/completions whose single user message holds the prompt and the image
\* as a base64 data URL.
MistralExtractTextFromImage(svc, prompt, image, mimeType, reply) ==
    IF Len(image) = 0
      THEN Generated("", Error("image data is empty", <<>>), <<>>)
    ELSE
    LET mime == IF mimeType = "" THEN "image/jpeg" ELSE mimeType
        imageURL == ImageURL(mime, EncodeToString(image))
        req == [url |-> "https://api.mistral.ai/v1/chat/completions",
                auth |-> svc.apiKey, model |-> "mistral-medium-latest",
                messages |->
                  <<[role |-> "user",
                     content |-> <<[type |-> "text", text |-> prompt],
                                   [type |-> "image_url",
                                    image_url |-> [url |-> imageURL]]>>]>>]
    IN  IF ~reply.transport
          THEN Generated("", Error("failed to send multimodal request to Mistral API: %w",
                                   <<>>),
                         <<req>>)
        ELSE IF reply.status # 200
          THEN Generated("", Error("mistral API error (multimodal): %s - %s",
                                   <<StatusLine(reply.status), reply.body>>),
                         <<req>>)
        ELSE IF ~Decodes(reply.body)
          THEN Generated("", Error("failed to decode mistral multimodal response: %w",
                                   <<>>),
                         <<req>>)
        ELSE IF Len(reply.body.choices) = 0 \/ reply.body.choices[1] = ""
          THEN Generated("", Error("no content found in mistral multimodal response",
                                   <<>>),
                         <<req>>)
        ELSE Generated(reply.body.choices[1], NilError, <<req>>)

\* A direct call of GenerateText on a constructed Mistral LLM service.
CallGenerateText(env, prompt, reply) ==
    /\ probe.fn = "none"
    /\ IsNil(NewMistralLlmService(env).err)
    /\ probe' = [fn |-> "GenerateText",
                 in |-> [env |-> env, prompt |-> prompt, reply |-> reply],
                 out |-> MistralGenerateText(NewMistralLlmService(env).svc,
                                             prompt, reply),
                 reqs |-> MistralGenerateText(NewMistralLlmService(env).svc,
                                              prompt, reply).reqs]
    /\ UNCHANGED <<pipeVars, cancelAt>>

\* A direct call of ExtractTextFromImage on a constructed Mistral LLM service.
CallExtractTextFromImage(env, prompt, image, mimeType, reply) ==
    /\ probe.fn = "none"
    /\ IsNil(NewMistralLlmService(env).err)
    /\ probe' = [fn |-> "ExtractTextFromImage",
                 in |-> [env |-> env, prompt |-> prompt, image |-> image,
                         mimeType |-> mimeType, reply |-> reply],
                 out |-> MistralExtractTextFromImage(NewMistralLlmService(env).svc,
                                                     prompt, image, mimeType, reply),
                 reqs |-> MistralExtractTextFromImage(NewMistralLlmService(env).svc,
                                                      prompt, image, mimeType,
                                                      reply).reqs]
    /\ UNCHANGED <<pipeVars, cancelAt>>

\* ------------------------------------------------------------- trace operators
Terminal == {"done", "failed"}

\* The events of the chunk loop that the ordering claims speak of: embedding
\* request, store write (execute), extraction request, sink output.
ChunkEvents == <<"embed", "execute", "extract", "sink">>

IsChunkEvent(e) == e.ev \in {"embed", "execute", "extract", "sink"}

ChunkLog(c) == SelectSeq(log[c], IsChunkEvent)

\* Positions of the trace of call c holding event ev.
At(c, ev) == {i \in DOMAIN log[c] : log[c][i].ev = ev}

\* Positions of the trace of call c holding event ev of chunk k.
AtChunk(c, ev, k) == {i \in At(c, ev) : log[c][i].k = k}

Happened(c, ev) == At(c, ev) # {}

Succeeded(c, ev) == \E i \in At(c, ev) : log[c][i].res = "ok"

NoDuplicateKey == \A i, j \in DOMAIN rows : rows[i] = rows[j] => i = j

\* ------------------------------------------------------------- claims

\* C1: persisting a chunk whose content is already a key of the store
\* succeeds (overwrite); so a call on the document of the caller's previous,
\* successful call, in which the environment fails no request (the key is
\* set, and file, splitter, store and providers answer), returns nil and
\* leaves the store with the key set it had, without a duplicate key.
C1_ReingestIsIdempotent ==
    \A c \in Calls :
        /\ \A i \in DOMAIN log[c] : log[c][i].res # "dupkey"
        /\ NoDuplicateKey
        /\ ( /\ prevDone[c]
             /\ prevFile[c] = file[c]
             /\ pc[c] \in Terminal
             /\ \A i \in DOMAIN log[c] :
                    log[c][i].res \notin {"env", "nokey", "notable", "baddim"} )
           => /\ pc[c] = "done"
              /\ Keys(rows) = startKeys[c]

\* C2: a failed embedding or extraction request of chunk k is the last
\* external call of the ingestion: the call has returned that error, and the
\* trace holds no call after it and no call for a chunk after k.
C2_ProviderFailureAborts ==
    \A c \in Calls : \A i \in DOMAIN log[c] :
        (log[c][i].ev \in {"embed", "extract"} /\ log[c][i].res # "ok")
        => /\ pc[c] = "failed"
           /\ err[c] = log[c][i].ev
           /\ i = Len(log[c])
           /\ \A j \in DOMAIN log[c] : log[c][j].k <= log[c][i].k

C2_Witness ==
    \E c \in Calls :
        /\ pc[c] = "failed"
        /\ err[c] = "extract"
        /\ idx[c] = 1
        /\ Len(chunks[c]) = 2

\* C3 (as stated): a failure of any stage, schema creation included, is the
\* last external call of the ingestion and is what the call returns.
C3_EveryFailureAborts ==
    \A c \in Calls : \A i \in DOMAIN log[c] :
        log[c][i].res # "ok"
        => /\ pc[c] = "failed"
           /\ err[c] = log[c][i].ev
           /\ i = Len(log[c])

\* C3 (amended): a failure of any stage other than schema creation is the
\* last external call of the ingestion and is what the call returns; after a
\* schema-creation failure the call goes on, and never returns that failure.
C3_FailureAbortsExceptSchema ==
    \A c \in Calls :
        /\ \A i \in DOMAIN log[c] :
             (log[c][i].res # "ok" /\ log[c][i].ev # "schema")
             => /\ pc[c] = "failed"
                /\ err[c] = log[c][i].ev
                /\ i = Len(log[c])
        /\ err[c] # "schema"
        /\ pc[c] = "failed" => log[c][Len(log[c])].res # "ok"

C3_Witness ==
    \E c \in Calls :
        /\ pc[c] = "failed"
        /\ err[c] = "prepare"
        /\ \E i \in At(c, "schema") : log[c][i].res # "ok"

\* C4: the chunk events of a call are a prefix of embed 1, write 1, extract 1,
\* sink 1, embed 2, write 2, ...: chunks are taken in document order, one at
\* a time, and no event of a chunk precedes the sink output of the chunk
\* before it.
C4_ChunksInOrder ==
    \A c \in Calls :
        LET cl == ChunkLog(c) IN
        \A i \in DOMAIN cl :
            /\ cl[i].ev = ChunkEvents[((i - 1) % 4) + 1]
            /\ cl[i].k = ((i - 1) \div 4) + 1
            /\ cl[i].k <= Len(chunks[c])

C4_Witness ==
    \E c \in Calls :
        /\ pc[c] = "done"
        /\ Len(chunks[c]) = 2
        /\ Len(ChunkLog(c)) = 8

\* C5: when the document load has failed, the call has returned the load
\* error; it has not opened the database, created the table, written a node
\* or called a provider, and the store is as it was when the call started.
C5_LoadFailurePersistsNothing ==
    \A c \in Calls :
        (\E i \in At(c, "load") : log[c][i].res # "ok")
        => /\ pc[c] = "failed"
           /\ err[c] = "load"
           /\ ~dbOpen[c]
           /\ \A ev \in {"split", "openDb", "openConn", "schema", "embed",
                         "prepare", "execute", "extract", "sink"} :
                  ~Happened(c, ev)
           /\ tableExists = startTable[c]
           /\ Keys(rows) = startKeys[c]

C5_Witness ==
    \E c \in Calls :
        /\ pc[c] = "failed"
        /\ err[c] = "load"
        /\ tableExists
        /\ rows # <<>>

\* C6 (as stated): a call whose splitter returned zero chunks returns nil,
\* having called no provider and persisted no node.
C6_ZeroChunksSucceeds ==
    \A c \in Calls :
        (Succeeded(c, "split") /\ chunks[c] = <<>> /\ pc[c] \in Terminal)
        => /\ pc[c] = "done"
           /\ ~Happened(c, "embed")
           /\ ~Happened(c, "extract")
           /\ Keys(rows) = startKeys[c]

\* C6 (amended): a call whose splitter returned zero chunks calls no provider
\* and persists no node; it returns nil once the database and the connection
\* have opened, whatever schema creation answered, and otherwise returns the
\* error of the database or connection open.
C6_ZeroChunksNoProviderNoNode ==
    \A c \in Calls :
        (Succeeded(c, "split") /\ chunks[c] = <<>>)
        => /\ ~Happened(c, "embed")
           /\ ~Happened(c, "extract")
           /\ ~Happened(c, "execute")
           /\ Keys(rows) = startKeys[c]
           /\ Happened(c, "schema") => pc[c] = "done"
           /\ pc[c] = "failed" => err[c] \in {"openDb", "openConn"}

C6_Witness ==
    \E c \in Calls :
        /\ pc[c] = "done"
        /\ Succeeded(c, "split")
        /\ chunks[c] = <<>>
        /\ \E i \in At(c, "schema") : log[c][i].res # "ok"

\* The order of the phases of one ingestion call.
PhaseRank(p) ==
    CASE PhaseOf(p) = "Loading" -> 1
      [] PhaseOf(p) = "Chunking" -> 2
      [] PhaseOf(p) = "PerChunkProcessing" -> 3
      [] OTHER -> 4

\* Every chunk of call c has been embedded, written and extracted, and its
\* extraction printed, each without error.
AllChunksProcessed(c) ==
    \A k \in 1..Len(file[c]) :
        \A ev \in {"embed", "execute", "extract", "sink"} :
            \E i \in AtChunk(c, ev, k) : log[c][i].res = "ok"

\* C7: a call moves through Loading, Chunking and PerChunkProcessing in that
\* order and never back; Completed and Failed are final (only a new call
\* leaves them) and exclusive (nil is returned exactly in Completed, an error
\* exactly in Failed); a call enters Completed only with every chunk of the
\* document embedded, written and extracted without error.
C7_PhaseOrder ==
    [][\A c \in Calls :
         /\ pc[c] \notin Terminal \cup {"idle"}
              => PhaseRank(pc'[c]) >= PhaseRank(pc[c])
         /\ pc[c] \in Terminal
              => pc'[c] \in {pc[c], "newEmbedding"}
         /\ (pc'[c] = "done") <=> (err'[c] = "nil")
         /\ (pc'[c] = "failed") <=> (err'[c] \notin {"none", "nil"})
         /\ pc'[c] = "done" => /\ AllChunksProcessed(c)'
                               /\ chunks'[c] = file'[c]
      ]_vars

\* Failed has been entered from each of the three phases, the last time
\* after a first chunk had gone through.
C7_Witness ==
    /\ failedFrom = {"Loading", "Chunking", "PerChunkProcessing"}
    /\ \E c \in Calls :
          /\ pc[c] = "failed"
          /\ idx[c] = 2

\* C8: a call issues the embedding request and the extraction request of a
\* chunk at most once, and a failed provider request is the last request of
\* the call.
C8_NoRetry ==
    \A c \in Calls :
        /\ \A k \in 1..Len(chunks[c]) :
             /\ Cardinality(AtChunk(c, "embed", k)) <= 1
             /\ Cardinality(AtChunk(c, "extract", k)) <= 1
        /\ \A i \in At(c, "embed") \cup At(c, "extract") :
             log[c][i].res # "ok" => i = Len(log[c])

C8_Witness ==
    \E c \in Calls :
        /\ pc[c] = "failed"
        /\ err[c] = "embed"
        /\ idx[c] = 2

\* C9 (as stated): when the node of a chunk is written, the embedding request
\* and the extraction request of that chunk have both completed.
C9_BothBeforeWrite ==
    \A c \in Calls : \A i \in At(c, "execute") :
        /\ \E j \in AtChunk(c, "embed", log[c][i].k) : j < i
        /\ \E j \in AtChunk(c, "extract", log[c][i].k) : j < i

\* C9 (amended): when the node of a chunk is written, the embedding request
\* of that chunk has completed without error and its extraction request has
\* not been issued; the extraction is requested only after the write
\* succeeded.
C9_EmbedBeforeWriteBeforeExtract ==
    \A c \in Calls :
        /\ \A i \in At(c, "execute") :
             /\ \E j \in AtChunk(c, "embed", log[c][i].k) :
                    j < i /\ log[c][j].res = "ok"
             /\ \A j \in AtChunk(c, "extract", log[c][i].k) : j > i
        /\ \A i \in At(c, "extract") :
             \E j \in AtChunk(c, "execute", log[c][i].k) :
                 j < i /\ log[c][j].res = "ok"

C9_Witness ==
    \E c \in Calls : \E i \in At(c, "extract") :
        /\ log[c][i].k = 2
        /\ log[c][i].res = "ok"

\* The Document table as call c would find it at position i of its trace,
\* had no other call touched the store since c started.
AloneTable(c, i) ==
    \/ startTable[c]
    \/ \E j \in At(c, "schema") : j < i /\ log[c][j].res # "env"

\* The keys as call c would find them when it writes chunk k, had no other
\* call touched the store since c started.
AloneKeys(c, k) == startKeys[c] \cup {chunks[c][j] : j \in 1..(k - 1)}

\* C10: two calls on different documents do not interfere, even when the
\* environment fails no request of either: whenever the store refuses a
\* request of a finished call (table missing at prepare, duplicate key at
\* execute), it would have refused it had the call run alone, and whenever it
\* would have refused it alone, it refuses it; so the call ends as it would
\* have alone, with the same nodes written.
C10_NoInterference ==
    ( /\ file[1] # file[2]
      /\ \A c \in Calls : \A i \in DOMAIN log[c] :
             log[c][i].res \notin {"env", "baddim"} )
    =>
    \A c \in Calls :
        pc[c] \in Terminal =>
        \A i \in DOMAIN log[c] :
            /\ log[c][i].ev = "prepare"
                 => ((log[c][i].res # "ok") <=> ~AloneTable(c, i))
            /\ log[c][i].ev = "execute"
                 => ((log[c][i].res # "ok")
                       <=> chunks[c][log[c][i].k] \in AloneKeys(c, log[c][i].k))


\* C11: once the caller has asked to cancel a provider request in flight,
\* the request either has not returned yet, or has returned a Cancelled error
\* (or a failure of its own that beat the cancellation) and IngestFile has
\* returned it to its caller; the request never completes and the call
\* never goes on.
C11_CancelSurfaces ==
    \A c \in Calls :
        cancelAt[c] > 0
        => \/ /\ Len(log[c]) = cancelAt[c]
              /\ InFlight(c)
           \/ /\ Len(log[c]) = cancelAt[c] + 1
              /\ pc[c] = "failed"
              /\ log[c][Len(log[c])].res \in {"cancelled", "env"}


\* C12: for a provider value outside {gemini, mistral, testing} embedding.New
\* returns the nil service and the error "unknown embedding provider: <p>",
\* and for a provider value other than mistral llm.NewLlmService returns the
\* nil service and the error "unknown LLM provider: <p>"; neither panics.
C12_UnknownProviderFails ==
    /\ (probe.fn = "New"
        /\ probe.in.provider \notin {"gemini", "mistral", "testing"})
       => /\ probe.out.svc.kind = "nil"
          /\ probe.out.err.msg = "unknown embedding provider: %s"
          /\ probe.out.err.args = <<probe.in.provider>>
          /\ ~probe.out.panicked
    /\ (probe.fn = "NewLlmService" /\ probe.in.provider # "mistral")
       => /\ probe.out.svc.kind = "nil"
          /\ probe.out.err.msg = "unknown LLM provider: %s"
          /\ probe.out.err.args = <<probe.in.provider>>
          /\ ~probe.out.panicked

C12_Witness ==
    /\ probe.fn = "New"
    /\ probe.in.provider = "Mistral"
    /\ ~IsNil(probe.out.err)

\* The API-key variable a remote provider reads.
KeyOf(provider, env) ==
    IF provider = "gemini" THEN env.GEMINI_API_KEY ELSE env.MISTRAL_API_KEY

\* C13: constructing a remote provider service (embedding.New for mistral or
\* gemini, llm.NewLlmService for mistral) with its API-key variable unset
\* returns an error and no service.
C13_MissingKeyFailsConstruction ==
    ( /\ probe.fn \in {"New", "NewLlmService"}
      /\ probe.in.provider \in
            (IF probe.fn = "New" THEN {"mistral", "gemini"} ELSE {"mistral"})
      /\ KeyOf(probe.in.provider, probe.in.env) = "" )
    => /\ ~IsNil(probe.out.err)
       /\ probe.out.svc.kind = "nil"


\* The reply is a successful exchange with status 200 and a JSON body.
ValidReply(r) == r.transport /\ r.status = 200 /\ r.body.kind = "json"

\* C14: MistralService.GetEmbeddings decides its result in the order
\* transport failure, non-200 status, undecodable body, empty data list: a
\* failed exchange gives the send error; a non-200 reply gives the API error
\* carrying the status line and the raw body, whatever the body; a 200 reply
\* whose body does not decode gives the decode error; a 200 reply with an
\* empty data list gives the no-embeddings error; every error comes with a
\* nil vector, and any other reply gives the first embedding and no error.
C14_MistralErrorOrder ==
    (probe.fn = "GetEmbeddings" /\ probe.in.provider = "mistral")
    => LET r == probe.in.reply
           o == probe.out
       IN  /\ ~r.transport => o.err.msg = "failed to send request: %w"
           /\ (r.transport /\ r.status # 200)
                => /\ o.err.msg = "mistral API error: %s - %s"
                   /\ o.err.args = <<StatusLine(r.status), r.body>>
           /\ (r.transport /\ r.status = 200 /\ r.body.kind # "json")
                => o.err.msg = "failed to decode response: %w"
           /\ (ValidReply(r) /\ r.body.data = <<>>)
                => o.err.msg = "no embeddings found in response"
           /\ (ValidReply(r) /\ r.body.data # <<>>)
                => IsNil(o.err) /\ o.vec = r.body.data[1]
           /\ ~IsNil(o.err) => o.vec = <<>>

C14_Witness ==
    /\ probe.fn = "GetEmbeddings"
    /\ probe.in.provider = "mistral"
    /\ probe.in.reply.transport
    /\ probe.in.reply.status = 500
    /\ probe.in.reply.body.kind = "truncated"
    /\ probe.out.err.msg = "mistral API error: %s - %s"

\* C15: for the Mistral and the Gemini provider, a valid reply with no
\* embedding makes GetEmbeddings return an error.
C15_ZeroEmbeddingsIsError ==
    ( /\ probe.fn = "GetEmbeddings"
      /\ probe.in.provider \in {"mistral", "gemini"}
      /\ ValidReply(probe.in.reply)
      /\ probe.in.reply.body.data = <<>> )
    => ~IsNil(probe.out.err)

\* C16: for every embedding provider, GetEmbeddings of the empty text sends
\* no request, and returns an error or an empty result.
C16_EmptyTextSendsNothing ==
    (probe.fn = "GetEmbeddings" /\ probe.in.text = "")
    => /\ probe.reqs = <<>>
       /\ ~IsNil(probe.out.err) \/ probe.out.vec = <<>>

\* C17: for a non-empty text and either embedding type, the mock provider
\* returns a vector of 768 elements and no error.
C17_MockDimension ==
    ( /\ probe.fn = "GetEmbeddings"
      /\ probe.in.provider = "testing"
      /\ probe.in.text # "" )
    => /\ Len(probe.out.vec) = 768
       /\ IsNil(probe.out.err)

C17_Witness ==
    /\ probe.fn = "GetEmbeddings"
    /\ probe.in.provider = "testing"
    /\ probe.in.text = "x"
    /\ probe.in.embeddingType = "RETRIEVAL_QUERY"
    /\ Len(probe.out.vec) = 768

\* The four error messages of an LLM call, in the order of its checks.
LlmErrors(fn) ==
    IF fn = "GenerateText"
      THEN <<"failed to send request to Mistral API: %w",
             "mistral API error: %s - %s",
             "failed to decode mistral response: %w",
             "no content found in mistral response">>
      ELSE <<"failed to send multimodal request to Mistral API: %w",
             "mistral API error (multimodal): %s - %s",
             "failed to decode mistral multimodal response: %w",
             "no content found in mistral multimodal response">>

\* The call of the LLM service got as far as its backend.
LlmCalled ==
    \/ probe.fn = "GenerateText"
    \/ probe.fn = "ExtractTextFromImage" /\ probe.in.image # <<>>

\* C18: GenerateText and ExtractTextFromImage decide their result in the
\* order transport failure, non-200 status, malformed body, zero choices: a
\* failed exchange gives the send error; a non-200 reply gives the API error
\* with the status line and the raw body, whatever the body; a 200 reply with
\* a malformed body gives the decode error; a 200 reply with no choice gives
\* the no-content error; the four errors are distinct and come with no text;
\* a 200 reply whose first choice has content returns that content, no error.
C18_LlmErrorOrder ==
    LlmCalled
    => LET r == probe.in.reply
           o == probe.out
           m == LlmErrors(probe.fn)
       IN  /\ ~r.transport => o.err.msg = m[1]
           /\ (r.transport /\ r.status # 200)
                => /\ o.err.msg = m[2]
                   /\ o.err.args = <<StatusLine(r.status), r.body>>
           /\ (r.transport /\ r.status = 200 /\ r.body.kind # "json")
                => o.err.msg = m[3]
           /\ (ValidReply(r) /\ r.body.choices = <<>>) => o.err.msg = m[4]
           /\ (ValidReply(r) /\ r.body.choices # <<>> /\ r.body.choices[1] # "")
                => IsNil(o.err) /\ o.text = r.body.choices[1]
           /\ ~IsNil(o.err) => o.text = ""
           /\ \A i, j \in 1..4 : m[i] = m[j] => i = j

C18_Witness ==
    /\ probe.fn = "GenerateText"
    /\ probe.in.reply.transport
    /\ probe.in.reply.status = 401
    /\ probe.in.reply.body.kind = "text"
    /\ probe.out.err.msg = "mistral API error: %s - %s"

\* C19: ExtractTextFromImage with an empty image returns the error "image
\* data is empty" and sends no request, for every prompt and MIME type.
C19_EmptyImageRefused ==
    (probe.fn = "ExtractTextFromImage" /\ probe.in.image = <<>>)
    => /\ probe.out.err.msg = "image data is empty"
       /\ probe.out.text = ""
       /\ probe.reqs = <<>>

C19_Witness ==
    /\ probe.fn = "ExtractTextFromImage"
    /\ probe.in.image = <<>>
    /\ probe.in.mimeType = ""
    /\ probe.in.prompt = "p"
    /\ probe.in.reply.transport
    /\ probe.in.reply.status = 200
    /\ probe.out.err.msg = "image data is empty"

\* The value of a base64 character (RFC 4648, table 1).
Base64Value(ch) == (CHOOSE i \in 1..64 : encodeStd[i] = ch) - 1

\* The bytes that a padded base64 text stands for.
RECURSIVE Base64Decode(_)
Base64Decode(txt) ==
    IF Len(txt) < 4 THEN <<>>
    ELSE LET pad == IF txt[3] = "=" THEN 2 ELSE IF txt[4] = "=" THEN 1 ELSE 0
             v(i) == IF txt[i] = "=" THEN 0 ELSE Base64Value(txt[i])
             val == v(1) * 262144 + v(2) * 4096 + v(3) * 64 + v(4)
             bytes == <<val \div 65536, (val \div 256) % 256, val % 256>>
         IN  SubSeq(bytes, 1, 3 - pad) \o Base64Decode(SubSeq(txt, 5, Len(txt)))

\* C20: for every prompt, non-empty image and MIME type, the request of
\* ExtractTextFromImage carries one user message whose content is exactly a
\* text part with the prompt and then an image_url part whose url is
\* "data:<mimeType>;base64," followed by the base64 text of the image, with
\* image/jpeg for a MIME type that was not given.
C20_ImageRequestShape ==
    (probe.fn = "ExtractTextFromImage" /\ probe.in.image # <<>>)
    => /\ Len(probe.reqs) = 1
       /\ LET msgs == probe.reqs[1].messages
          IN  /\ Len(msgs) = 1
              /\ msgs[1].role = "user"
              /\ Len(msgs[1].content) = 2
              /\ LET txt == msgs[1].content[1]
                     img == msgs[1].content[2]
                 IN  /\ txt.type = "text"
                     /\ txt.text = probe.in.prompt
                     /\ img.type = "image_url"
                     /\ LET url == img.image_url.url
                            b64 == SubSeq(url, 4, Len(url))
                        IN  /\ Len(url) > 3
                            /\ url[1] = "data:"
                            /\ url[2] = (IF probe.in.mimeType = ""
                                           THEN "image/jpeg"
                                           ELSE probe.in.mimeType)
                            /\ url[3] = ";base64,"
                            /\ Len(b64) = 4 * ((Len(probe.in.image) + 2) \div 3)
                            /\ Base64Decode(b64) = probe.in.image

C20_Witness ==
    /\ probe.fn = "ExtractTextFromImage"
    /\ probe.in.image = <<0, 77>>
    /\ probe.in.mimeType = ""
    /\ Len(probe.reqs) = 1
    /\ probe.reqs[1].messages[1].content[2].image_url.url
         = <<"data:", "image/jpeg", ";base64,", "A", "E", "0", "=">>

\* ------------------------------------------------------------- claims C21..C25
\* C21: every embedding that IngestFile hands to conn.Execute has 768
\* elements: the call never reaches Execute holding a vector of another
\* length, and the store never has to refuse one.
C21_OnlyStoreDimension ==
    \A c \in Calls :
        /\ pc[c] = "execute" => embedding[c] = 768
        /\ \A i \in DOMAIN log[c] :
               log[c][i].ev = "execute" => log[c][i].res # "baddim"

\* Chunk k of call c was written by conn.Execute.
Written(c, k) == \E i \in DOMAIN log[c] : log[c][i] = Event("execute", k, "ok")

\* The content of chunks 1..k of call c.
ContentUpTo(c, k) == {chunks[c][j] : j \in 1..k}

\* C23: when IngestFile has failed while processing chunk k, the nodes of
\* chunks 1..k-1 are in the store; after a failure of the embedding, prepare
\* or execute step of chunk k the store holds what it held at the start and
\* those nodes and nothing else; after a failure of the extraction of chunk
\* k it holds the node of chunk k as well.
C23_NoRollback ==
    \A c \in {1} :
        (pc[c] = "failed" /\ log[c] # <<>> /\ log[c][Len(log[c])].k > 0)
        => LET last == log[c][Len(log[c])]
               k == last.k
           IN  /\ \A j \in 1..(k - 1) : Written(c, j) /\ chunks[c][j] \in Keys(rows)
               /\ last.ev \in {"embed", "prepare", "execute"}
                    => /\ ~Written(c, k)
                       /\ Keys(rows) = startKeys[c] \cup ContentUpTo(c, k - 1)
                       /\ Len(rows) = Cardinality(startKeys[c]) + (k - 1)
               /\ last.ev = "extract"
                    => /\ Written(c, k)
                       /\ Keys(rows) = startKeys[c] \cup ContentUpTo(c, k)
                       /\ Len(rows) = Cardinality(startKeys[c]) + k

C23_Witness ==
    /\ pc[1] = "failed"
    /\ err[1] = "extract"
    /\ log[1][Len(log[1])] = Event("extract", 2, "env")
    /\ Keys(rows) = {"a", "b"}

\* The number of events ev of call c that succeeded.
CountOk(c, ev) ==
    Cardinality({i \in DOMAIN log[c] : log[c][i].ev = ev /\ log[c][i].res = "ok"})

\* How often handle h was destroyed by call c.
Destroyed(c, h) == Cardinality({i \in DOMAIN destroys[c] : destroys[c][i] = h})

\* The place of a handle in the order of destruction.
DestroyRank(h) == CASE h.h = "stmt" -> 0 [] h.h = "conn" -> 1 [] h.h = "db" -> 2

\* C24: while IngestFile runs nothing is destroyed, and the live statements
\* are one for each chunk whose statement was prepared; once IngestFile has
\* returned, the database, the connection (if created) and every prepared
\* statement have each been destroyed exactly once and nothing else has, all
\* statements before the connection and the connection before the database.
C24_DestroyOnceInOrder ==
    \A c \in Calls :
        /\ pc[c] \notin Terminal
             => /\ destroys[c] = <<>>
                /\ stmts[c] = CountOk(c, "prepare")
                /\ pc[c] \in {"embed", "prepare"} => stmts[c] = idx[c] - 1
                /\ pc[c] \in {"execute", "extract", "sink"} => stmts[c] = idx[c]
        /\ pc[c] \in Terminal
             => /\ ~dbOpen[c] /\ ~connOpen[c] /\ stmts[c] = 0
                /\ Destroyed(c, Handle("db", 0)) = CountOk(c, "openDb")
                /\ Destroyed(c, Handle("conn", 0)) = CountOk(c, "openConn")
                /\ \A k \in 1..CountOk(c, "prepare") :
                       Destroyed(c, Handle("stmt", k)) = 1
                /\ Len(destroys[c]) = CountOk(c, "openDb") + CountOk(c, "openConn")
                                        + CountOk(c, "prepare")
                /\ \A i, j \in DOMAIN destroys[c] :
                       i < j => DestroyRank(destroys[c][i]) <= DestroyRank(destroys[c][j])

C24_Witness ==
    /\ pc[1] = "failed"
    /\ err[1] = "execute"
    /\ destroys[1] = <<Handle("stmt", 2), Handle("stmt", 1),
                       Handle("conn", 0), Handle("db", 0)>>

\* C25: when MISTRAL_API_KEY is unset, IngestFile has, once it is past the
\* construction of its services, returned the error of the LLM service
\* construction; its only calls were the two constructions, it holds and has
\* destroyed no handle, and the store is as it was when the call started.
C25_ConstructionFailsFirst ==
    \A c \in {1} :
        (~keySet[c] /\ pc[c] \notin {"idle", "newEmbedding", "newLlm"})
        => /\ pc[c] = "failed"
           /\ err[c] = "newLlm"
           /\ log[c] = <<Event("newEmbedding", 0, "ok"), Event("newLlm", 0, "nokey")>>
           /\ ~dbOpen[c] /\ ~connOpen[c] /\ stmts[c] = 0 /\ destroys[c] = <<>>
           /\ Keys(rows) = startKeys[c]
           /\ tableExists = startTable[c]

C25_Witness ==
    /\ ~keySet[1]
    /\ pc[1] = "failed"
    /\ err[1] = "newLlm"
    /\ Len(log[1]) = 2
    /\ rows # <<>>

\* ------------------------------------------------------------- provider specification
\* The provider functions, each called directly with every argument and
\* every answer of its backend.
NextProviders ==
    /\ probe.fn = "none"
    /\ \/ \E p \in ProviderValues, env \in Environments, ok \in BOOLEAN :
            CallNew(p, env, ok)
       \/ \E p \in ProviderValues, env \in Environments :
            CallNewLlmService(p, env)
       \/ \E p \in ProviderValues, env \in Environments, t \in EmbedTexts,
             ty \in EmbeddingTypes, r \in EmbedReplies :
            CallGetEmbeddings(p, env, t, ty, r)
       \/ \E env \in Environments, pr \in Prompts, r \in ChatReplies :
            CallGenerateText(env, pr, r)
       \/ \E env \in Environments, pr \in Prompts, img \in Images,
             mt \in MimeTypes, r \in ChatReplies :
            CallExtractTextFromImage(env, pr, img, mt, r)

SpecProviders == Init /\ [][NextProviders]_vars

====
